---- MODULE Spec2Model ----
(***************************************************************************)
(* Model of the sculpting core of stlmuokkaus.py (class STLEditor and the  *)
(* brush helpers above it): vertex buffer, mesh topology, anchor, drag     *)
(* session, undo/redo history, normal cache and the two rate timers.       *)
(*                                                                         *)
(* Numbers.  The program computes in floating point.  The model computes   *)
(* in fixed point: a world length is an integer count of 1/WorldScale      *)
(* world units (0.25 is 25, 0.20 is 20, 0.8 is 80), strength and smoothing   *)
(* are the slider's integer percent (float(v)/100.0 in the code), a        *)
(* falloff weight and a unit normal are integers out of WeightOne.         *)
(* Optional values (None in the code) are <<>> and <<v>>.                  *)
(***************************************************************************)
EXTENDS Integers, Sequences, FiniteSets, TLC

\* ------------------------------------------------------------------ bounds
MaxSteps == 6
MaxVerts == 6

\* --------------------------------------------------------- program constants
stack_max == 30
sculpt_min_dt_ms == 16
normals_min_dt_ms == 80
click_move_threshold_px == 6

\* fixed-point resolution of world lengths: model units per world unit
WorldScale == 100
\* fixed-point resolution of weights and unit normals
WeightOne == 1000

None == <<>>
Some(v) == <<v>>

\* ------------------------------------------------------------ vector algebra
Zero3 == <<0, 0, 0>>
Abs(x) == IF x < 0 THEN -x ELSE x
Min(a, b) == IF a <= b THEN a ELSE b
Max(a, b) == IF a >= b THEN a ELSE b
Clip(x, lo, hi) == IF x < lo THEN lo ELSE IF x > hi THEN hi ELSE x
\* division rounding toward zero (the fixed-point image of a float quotient)
TDiv(a, b) == IF a >= 0 THEN a \div b ELSE -((-a) \div b)
VAdd(a, b) == <<a[1] + b[1], a[2] + b[2], a[3] + b[3]>>
VSub(a, b) == <<a[1] - b[1], a[2] - b[2], a[3] - b[3]>>
VScale(a, k) == <<a[1] * k, a[2] * k, a[3] * k>>
VTDiv(a, k) == <<TDiv(a[1], k), TDiv(a[2], k), TDiv(a[3], k)>>
Dot(a, b) == a[1] * b[1] + a[2] * b[2] + a[3] * b[3]
Norm2(a) == Dot(a, a)
Cross(a, b) ==
    <<a[2] * b[3] - a[3] * b[2], a[3] * b[1] - a[1] * b[3], a[1] * b[2] - a[2] * b[1]>>

RECURSIVE Bisect(_, _, _)
Bisect(n, lo, hi) ==
    IF hi - lo <= 1 THEN lo
    ELSE LET mid == (lo + hi) \div 2
         IN IF mid * mid <= n THEN Bisect(n, mid, hi) ELSE Bisect(n, lo, mid)
\* floor and ceiling of the square root
FloorSqrt(n) == IF n <= 0 THEN 0 ELSE Bisect(n, 0, Min(n, 46340) + 1)
CeilSqrt(n) == LET f == FloorSqrt(n) IN IF f * f = n THEN f ELSE f + 1
\* np.linalg.norm
Norm(a) == FloorSqrt(Norm2(a))

\* ------------------------------------------------------------ brush helpers
\* exp(-4.5 * q) for q = b/8, out of WeightOne
ExpTable == <<1000, 570, 325, 185, 105, 60, 34, 20, 11>>

\* a falloff that keeps the Gaussian tail beyond the radius
gaussian_falloff_tail(floor, r2, radius) ==
    LET rad == Max(radius, floor)
    IN IF r2 = 0 \/ rad = 0 THEN WeightOne
       ELSE ExpTable[Min((r2 * 8) \div (rad * rad), 8) + 1]
\* a falloff that also zeroes the distance equal to the radius
gaussian_falloff_closed(floor, r2, radius) ==
    LET rad == Max(radius, floor)
    IN IF r2 >= rad * rad THEN 0
       ELSE IF r2 = 0 THEN WeightOne
       ELSE ExpTable[((r2 * 8) \div (rad * rad)) + 1]
\* a falloff that does not clamp the radius
gaussian_falloff_noclamp(floor, r2, radius) ==
    IF r2 > radius * radius THEN 0
    ELSE IF r2 = 0 THEN WeightOne
    ELSE ExpTable[((r2 * 8) \div (radius * radius)) + 1]
\* gaussian_falloff for one vertex, in a length unit in which the 1e-9 of
\* radius = max(radius, 1e-9) is floor units: r2 is the squared distance,
\* radius the brush radius; sigma = radius/3, so the exponent is
\* -4.5 * r2 / radius^2.
gaussian_falloff_unit(floor, r2, radius) ==
    LET rad == Max(radius, floor)
    IN IF r2 > rad * rad THEN 0
       ELSE IF r2 = 0 THEN WeightOne
       ELSE ExpTable[((r2 * 8) \div (rad * rad)) + 1]

\* gaussian_falloff in the editor's length unit, where 1e-9 lies below the
\* fixed-point resolution (0 units): a zero radius leaves exp(-0) = 1 at r = 0
\* and the cutoff everywhere else.
gaussian_falloff(r2, radius) == gaussian_falloff_unit(0, r2, radius)

safe_unit_axis(mode) ==
    IF mode = "X" THEN Some(<<1, 0, 0>>)
    ELSE IF mode = "Y" THEN Some(<<0, 1, 0>>)
    ELSE IF mode = "Z" THEN Some(<<0, 0, 1>>)
    ELSE None

\* a grab that pulls the vertices towards the displaced anchor
grab_deform_pull(pts, anchor, delta, radius, strength) ==
    [i \in 1..Len(pts) |->
        LET w == gaussian_falloff(Norm2(VSub(pts[i], anchor)), radius) * strength
        IN VAdd(pts[i], VTDiv(VScale(VSub(VAdd(anchor, delta), pts[i]), w),
                              WeightOne * 100))]
\* grab_deform: strength in percent
grab_deform(pts, anchor, delta, radius, strength) ==
    [i \in 1..Len(pts) |->
        LET w == gaussian_falloff(Norm2(VSub(pts[i], anchor)), radius) * strength
        IN VAdd(pts[i], VTDiv(VScale(delta, w), WeightOne * 100))]

\* inflate_deflate: normals out of WeightOne, amount in model units
inflate_deflate(pts, anchor, normals, radius, amount) ==
    [i \in 1..Len(pts) |->
        LET w == gaussian_falloff(Norm2(VSub(pts[i], anchor)), radius) * amount
        IN VAdd(pts[i], VTDiv(VScale(normals[i], w), WeightOne * WeightOne))]

RECURSIVE VSum(_, _)
VSum(pts, S) ==
    IF S = {} THEN Zero3
    ELSE LET i == CHOOSE j \in S : TRUE IN VAdd(pts[i], VSum(pts, S \ {i}))

\* a smooth without the test on the size of the neighbourhood
local_smooth_any(pts, anchor, radius, strength, drag_len) ==
    LET idxs == {i \in 1..Len(pts) : Norm2(VSub(pts[i], anchor)) <= radius * radius}
        nb_r == Max((radius * 40) \div 100, (8 * WorldScale) \div 10)
        amt == Clip((strength * drag_len * 6) \div WorldScale, 0, 65)
        nb(vi) == {j \in 1..Len(pts) : Norm2(VSub(pts[j], pts[vi])) <= nb_r * nb_r}
    IN [vi \in 1..Len(pts) |->
           IF vi \in idxs
           THEN VTDiv(VAdd(VScale(pts[vi], 100 - amt),
                           VScale(VTDiv(VSum(pts, nb(vi)), Cardinality(nb(vi))), amt)),
                      100)
           ELSE pts[vi]]
\* local_smooth: strength in percent, drag_len in model units
local_smooth(pts, anchor, radius, strength, drag_len) ==
    LET idxs == {i \in 1..Len(pts) : Norm2(VSub(pts[i], anchor)) <= radius * radius}
        nb_r == Max((radius * 40) \div 100, (8 * WorldScale) \div 10)
        amt == Clip((strength * drag_len * 6) \div WorldScale, 0, 65)
        nb(vi) == {j \in 1..Len(pts) : Norm2(VSub(pts[j], pts[vi])) <= nb_r * nb_r}
    IN IF idxs = {} THEN pts
       ELSE [vi \in 1..Len(pts) |->
               IF vi \in idxs /\ Cardinality(nb(vi)) >= 8
               THEN VTDiv(VAdd(VScale(pts[vi], 100 - amt),
                               VScale(VTDiv(VSum(pts, nb(vi)), Cardinality(nb(vi))), amt)),
                          100)
               ELSE pts[vi]]

\* ------------------------------------------------- mesh (pyvista PolyData)
\* A mesh is [faces |-> set of vertex-index triples, pts |-> its points array].
\* The filters below stand for the library calls the editor makes; they are
\* modelled by their contract on small triangle meshes.
FaceIdx(f) == {f[1], f[2], f[3]}
UsedVertices(m) == UNION {FaceIdx(f) : f \in m.faces}
FacesValid(m) == \A f \in m.faces : \A k \in FaceIdx(f) : k >= 1 /\ k <= Len(m.pts)
\* a point read through a face index; an index past the array reads garbage
PtAt(m, k) == IF k >= 1 /\ k <= Len(m.pts) THEN m.pts[k] ELSE Zero3

RECURSIVE CrossSum(_, _)
CrossSum(m, F) ==
    IF F = {} THEN Zero3
    ELSE LET f == CHOOSE g \in F : TRUE
         IN VAdd(Cross(VSub(PtAt(m, f[2]), PtAt(m, f[1])), VSub(PtAt(m, f[3]), PtAt(m, f[1]))),
                 CrossSum(m, F \ {f}))

\* The direction of v as a unit vector, quantised to the nearest coordinate
\* axis (the normals filter is library code: the model keeps that a normal is
\* a unit vector decided by the geometry around the vertex)
Normalize(v) ==
    LET a == <<Abs(v[1]), Abs(v[2]), Abs(v[3])>>
        sgn(x) == IF x < 0 THEN -WeightOne ELSE WeightOne
    IN IF v = Zero3 THEN Zero3
       ELSE IF a[3] >= a[1] /\ a[3] >= a[2] THEN <<0, 0, sgn(v[3])>>
       ELSE IF a[2] >= a[1] THEN <<0, sgn(v[2]), 0>>
       ELSE <<sgn(v[1]), 0, 0>>

\* mesh.compute_normals(inplace=True); mesh.point_normals: one normal per
\* point.  vec is the array; src records the points it was computed from.
PointNormals(m) ==
    [vec |-> [i \in 1..Len(m.pts) |->
                 Normalize(CrossSum(m, {f \in m.faces : i \in FaceIdx(f)}))],
     src |-> m.pts]

\* What the normals filter can leave behind.  On a mesh whose faces index past
\* the points array the filter reads and writes out of bounds: the result is
\* either computed from whatever is read, or an array of garbage (zeros here).
NormalsOutcomes(m) ==
    IF FacesValid(m) THEN {PointNormals(m)}
    ELSE {PointNormals(m), [vec |-> [i \in 1..Len(m.pts) |-> Zero3], src |-> m.pts]}

\* mesh.length: diagonal of the bounding box
RECURSIVE SeqMax(_, _, _)
SeqMax(pts, c, n) == IF n = 0 THEN -1000000 ELSE Max(pts[n][c], SeqMax(pts, c, n - 1))
RECURSIVE SeqMin(_, _, _)
SeqMin(pts, c, n) == IF n = 0 THEN 1000000 ELSE Min(pts[n][c], SeqMin(pts, c, n - 1))
MeshLength(m) ==
    IF Len(m.pts) = 0 THEN 0
    ELSE LET ext(c) == SeqMax(m.pts, c, Len(m.pts)) - SeqMin(m.pts, c, Len(m.pts))
         IN FloorSqrt(ext(1) * ext(1) + ext(2) * ext(2) + ext(3) * ext(3))

\* clean(): drop the points no face uses and renumber (the model's meshes hold
\* no coincident points; extract_surface().triangulate() keeps a triangle mesh)
Clean(m) ==
    LET used == {k \in UsedVertices(m) : k >= 1 /\ k <= Len(m.pts)}
        rank(k) == Cardinality({j \in used : j <= k})
        old(r) == CHOOSE k \in used : rank(k) = r
    IN IF \A f \in m.faces : FaceIdx(f) \subseteq used
       THEN [faces |-> {<<rank(f[1]), rank(f[2]), rank(f[3])>> : f \in m.faces},
             pts |-> [r \in 1..Cardinality(used) |-> m.pts[old(r)]]]
       ELSE m

\* one subdivision step: a midpoint on every edge, four faces for one
Edges(m) == UNION {{{f[1], f[2]}, {f[2], f[3]}, {f[3], f[1]}} : f \in m.faces}
EdgeKey(e) == LET a == CHOOSE x \in e : \A y \in e : x <= y
                  b == CHOOSE x \in e : \A y \in e : x >= y
              IN a * 100 + b
EdgeRank(m, e) == Cardinality({g \in Edges(m) : EdgeKey(g) <= EdgeKey(e)})
MidIdx(m, a, b) == Len(m.pts) + EdgeRank(m, {a, b})
SubdivideOnce(m) ==
    LET E == Edges(m)
        edgeAt(r) == CHOOSE e \in E : EdgeRank(m, e) = r
        mid(e) == LET a == CHOOSE x \in e : \A y \in e : x <= y
                      b == CHOOSE x \in e : \A y \in e : x >= y
                  IN VTDiv(VAdd(PtAt(m, a), PtAt(m, b)), 2)
    IN [faces |-> UNION {{<<f[1], MidIdx(m, f[1], f[2]), MidIdx(m, f[3], f[1])>>,
                          <<MidIdx(m, f[1], f[2]), f[2], MidIdx(m, f[2], f[3])>>,
                          <<MidIdx(m, f[3], f[1]), MidIdx(m, f[2], f[3]), f[3]>>,
                          <<MidIdx(m, f[1], f[2]), MidIdx(m, f[2], f[3]), MidIdx(m, f[3], f[1])>>}
                         : f \in m.faces},
        pts |-> [k \in 1..(Len(m.pts) + Cardinality(E)) |->
                    IF k <= Len(m.pts) THEN m.pts[k] ELSE mid(edgeAt(k - Len(m.pts)))]]
RECURSIVE Subdivide(_, _)
Subdivide(m, it) == IF it = 0 THEN m ELSE Subdivide(SubdivideOnce(m), it - 1)
SubdividedVerts(m, it) == Len(Subdivide(m, it).pts)

\* decimate_pro(target_reduction, preserve_topology=True): collapse the
\* highest-numbered vertex into its lowest neighbour while more faces remain
\* than the target and a face would survive
CollapseTop(m) ==
    LET top == CHOOSE k \in UsedVertices(m) : \A j \in UsedVertices(m) : j <= k
        nbrs == UNION {FaceIdx(f) : f \in {g \in m.faces : top \in FaceIdx(g)}} \ {top}
        to == CHOOSE k \in nbrs : \A j \in nbrs : k <= j
        sw(k) == IF k = top THEN to ELSE k
        moved == {<<sw(f[1]), sw(f[2]), sw(f[3])>> : f \in m.faces}
    IN [faces |-> {f \in moved : Cardinality(FaceIdx(f)) = 3}, pts |-> m.pts]
RECURSIVE DecimateTo(_, _)
DecimateTo(m, target) ==
    IF Cardinality(m.faces) <= target \/ m.faces = {} THEN m
    ELSE LET c == CollapseTop(m)
         IN IF c.faces = {} THEN m ELSE DecimateTo(c, target)
DecimatePro(m, pct) ==
    DecimateTo(m, (Cardinality(m.faces) * (100 - pct) + 99) \div 100)

\* ------------------------------------------------------------ editor state
VARIABLES
    mesh,                    \* self.mesh: None or the PolyData
    points,                  \* self.points: None or the vertex position buffer
    cached_normals,          \* self._cached_normals
    anchor,                  \* self.anchor
    brush, axis_mode, axis,  \* self.brush, self.axis_mode, self.axis
    radius,                  \* self.radius, model units
    strength,                \* self.strength, percent
    smooth_amount,           \* self.smooth_amount, percent
    sculpt_total,            \* self._sculpt_total
    axis_total_signed,       \* self._axis_total_signed
    sculpting,               \* self.sculpting
    last_pick,               \* self.last_pick
    lmb_down, press_pos, moved, drag_consumed_by_sculpt,
    undo, redo,              \* self.undo, self.redo: lists of buffer snapshots
    sculpt_elapsed,          \* self._sculpt_timer.elapsed(), saturating at 16
    normals_elapsed,         \* self._normals_timer.elapsed(), saturating at 81
    max_step_world, max_amount_world,
    lastOp,                  \* history: the handler that ran last and its outcome
    steps,                   \* history: state-changing handler runs so far (bounded)
    sinceApplied,            \* history: ms since the last applied sculpt update
                             \* (saturating at 16), and that figure as the last
                             \* applied update found it
    drag0,                   \* history: buffer and undo stack at session start
    hist,                    \* history: the buffers pushed since the load, the
                             \* undo / redo commands issued after them and the
                             \* buffer the first of those undos started from
    farMoved,                \* history: the pointer has been click_move_threshold_px
                             \* or more away from the press position since the press
    call                     \* the last call of a brush helper made on its own:
                             \* its name, arguments and result

EditorVars == <<mesh, points, cached_normals, anchor, brush, axis_mode, axis, radius,
          strength, smooth_amount, sculpt_total, axis_total_signed, sculpting,
          last_pick, lmb_down, press_pos, moved, drag_consumed_by_sculpt, undo,
          redo, sculpt_elapsed, normals_elapsed, max_step_world, max_amount_world,
          lastOp, steps, sinceApplied, drag0, hist, farMoved>>
vars == <<EditorVars, call>>

\* the editor object as a record: the handlers below map it to its successors
Self ==
    [mesh |-> mesh, points |-> points, cached_normals |-> cached_normals,
     anchor |-> anchor, brush |-> brush, axis_mode |-> axis_mode, axis |-> axis,
     radius |-> radius, strength |-> strength, smooth_amount |-> smooth_amount,
     sculpt_total |-> sculpt_total, axis_total_signed |-> axis_total_signed,
     sculpting |-> sculpting, last_pick |-> last_pick, lmb_down |-> lmb_down,
     press_pos |-> press_pos, moved |-> moved,
     drag_consumed_by_sculpt |-> drag_consumed_by_sculpt, undo |-> undo, redo |-> redo,
     sculpt_elapsed |-> sculpt_elapsed, normals_elapsed |-> normals_elapsed,
     max_step_world |-> max_step_world, max_amount_world |-> max_amount_world,
     lastOp |-> lastOp, steps |-> steps, sinceApplied |-> sinceApplied,
     drag0 |-> drag0, hist |-> hist, farMoved |-> farMoved, call |-> call]

Install(e) ==
    /\ mesh' = e.mesh /\ points' = e.points /\ cached_normals' = e.cached_normals
    /\ anchor' = e.anchor /\ brush' = e.brush /\ axis_mode' = e.axis_mode
    /\ axis' = e.axis /\ radius' = e.radius /\ strength' = e.strength
    /\ smooth_amount' = e.smooth_amount /\ sculpt_total' = e.sculpt_total
    /\ axis_total_signed' = e.axis_total_signed /\ sculpting' = e.sculpting
    /\ last_pick' = e.last_pick /\ lmb_down' = e.lmb_down /\ press_pos' = e.press_pos
    /\ moved' = e.moved /\ drag_consumed_by_sculpt' = e.drag_consumed_by_sculpt
    /\ undo' = e.undo /\ redo' = e.redo /\ sculpt_elapsed' = e.sculpt_elapsed
    /\ normals_elapsed' = e.normals_elapsed /\ max_step_world' = e.max_step_world
    /\ max_amount_world' = e.max_amount_world /\ lastOp' = e.lastOp
    /\ steps' = e.steps /\ sinceApplied' = e.sinceApplied /\ drag0' = e.drag0
    /\ hist' = e.hist /\ farMoved' = e.farMoved
    /\ call' = e.call

Hist0 == [pushLog |-> <<>>, undos |-> 0, redos |-> 0, final |-> None]

\* STLEditor.__init__
Init ==
    /\ mesh = None /\ points = None /\ cached_normals = None /\ anchor = None
    /\ brush = "TARTU" /\ axis_mode = "VAPAA" /\ axis = None
    /\ radius = 10 * WorldScale /\ strength = 100 /\ smooth_amount = 50
    /\ sculpt_total = 0 /\ axis_total_signed = 0
    /\ sculpting = FALSE /\ last_pick = None
    /\ lmb_down = FALSE /\ press_pos = None /\ moved = FALSE
    /\ drag_consumed_by_sculpt = FALSE
    /\ undo = <<>> /\ redo = <<>>
    /\ sculpt_elapsed = 0 /\ normals_elapsed = 0
    /\ max_step_world = 2 * WorldScale /\ max_amount_world = 2 * WorldScale
    /\ lastOp = "init" /\ steps = 0
    /\ sinceApplied = [ms |-> sculpt_min_dt_ms, gap |-> sculpt_min_dt_ms]
    /\ drag0 = None /\ hist = Hist0 /\ farMoved = FALSE
    /\ call = None

\* ------------------------------------------------------------ undo / redo
\* push_undo without the snapshot
push_undo_skip(e) == [e EXCEPT !.redo = <<>>]
\* push_undo that drops the new snapshot, not the oldest, at capacity
push_undo_dropnew(e) ==
    IF e.points = None THEN e
    ELSE LET u == Append(e.undo, e.points[1])
         IN [e EXCEPT !.undo = IF Len(u) > stack_max THEN e.undo ELSE u,
                      !.redo = <<>>,
                      !.hist.pushLog = Append(@, e.points[1])]
\* push_undo
push_undo(e) ==
    IF e.points = None THEN e
    ELSE LET u == Append(e.undo, e.points[1])
         IN [e EXCEPT !.undo = IF Len(u) > stack_max THEN Tail(u) ELSE u,
                      !.redo = <<>>,
                      !.hist.pushLog = Append(@, e.points[1])]

\* _set_points that leaves the cached normals as they were
set_points_stale(e, pts) ==
    LET m == [e.mesh[1] EXCEPT !.pts = pts]
    IN {[e EXCEPT !.points = Some(pts), !.mesh = Some(m)]}
\* _set_points: install the buffer, hand it to the mesh, recompute the normals
set_points(e, pts) ==
    LET m == [e.mesh[1] EXCEPT !.pts = pts]
    IN {[e EXCEPT !.points = Some(pts), !.mesh = Some(m), !.cached_normals = Some(n)]
        : n \in NormalsOutcomes(m)}

\* do_undo that saves the buffer for redo before it looks at the undo stack
do_undo_eager(e) ==
    IF e.mesh = None THEN {e}
    ELSE IF e.undo = <<>> THEN {[e EXCEPT !.redo = Append(e.redo, e.points[1])]}
    ELSE LET e1 == [e EXCEPT !.redo = Append(e.redo, e.points[1]),
                             !.undo = SubSeq(e.undo, 1, Len(e.undo) - 1)]
         IN set_points(e1, e.undo[Len(e.undo)])
\* do_undo that leaves the snapshot it restores on the undo stack
do_undo_nopop(e) ==
    IF e.mesh = None \/ e.undo = <<>> THEN {e}
    ELSE LET e1 == [e EXCEPT !.redo = Append(e.redo, e.points[1])]
         IN set_points(e1, e.undo[Len(e.undo)])
\* do_undo that takes the oldest snapshot
do_undo_oldest(e) ==
    IF e.mesh = None \/ e.undo = <<>> THEN {e}
    ELSE LET e1 == [e EXCEPT !.redo = Append(e.redo, e.points[1]),
                             !.undo = Tail(e.undo)]
         IN set_points(e1, e.undo[1])
\* do_undo
do_undo(e) ==
    IF e.mesh = None \/ e.undo = <<>> THEN {e}
    ELSE LET e1 == [e EXCEPT !.redo = Append(e.redo, e.points[1]),
                             !.undo = SubSeq(e.undo, 1, Len(e.undo) - 1)]
         IN set_points(e1, e.undo[Len(e.undo)])

\* do_redo that takes the oldest entry of the redo stack
do_redo_oldest(e) ==
    IF e.mesh = None \/ e.redo = <<>> THEN {e}
    ELSE LET e1 == [e EXCEPT !.undo = Append(e.undo, e.points[1]),
                             !.redo = Tail(e.redo)]
         IN set_points(e1, e.redo[1])
\* do_redo
do_redo(e) ==
    IF e.mesh = None \/ e.redo = <<>> THEN {e}
    ELSE LET e1 == [e EXCEPT !.undo = Append(e.undo, e.points[1]),
                             !.redo = SubSeq(e.redo, 1, Len(e.redo) - 1)]
         IN set_points(e1, e.redo[Len(e.redo)])

\* ------------------------------------------------------------ load
\* load_stl that leaves the drag session as it is
load_stl_keep(e, m) ==
    LET L == MeshLength(m)
    IN [e EXCEPT !.mesh = Some(m), !.points = Some(m.pts),
                 !.max_step_world = Max(WorldScale \div 4, (4 * L) \div 1000),
                 !.max_amount_world = Max(WorldScale \div 5, (3 * L) \div 1000),
                 !.undo = <<>>, !.redo = <<>>, !.anchor = None,
                 !.cached_normals = Some(PointNormals(m)),
                 !.sculpt_total = 0, !.axis_total_signed = 0]
\* load_stl; m is the file's mesh after triangulate().clean()
load_stl(e, m) ==
    LET L == MeshLength(m)
    IN [e EXCEPT !.mesh = Some(m), !.points = Some(m.pts),
                 !.max_step_world = Max(WorldScale \div 4, (4 * L) \div 1000),
                 !.max_amount_world = Max(WorldScale \div 5, (3 * L) \div 1000),
                 !.undo = <<>>, !.redo = <<>>, !.anchor = None,
                 !.sculpting = FALSE, !.last_pick = None,
                 !.drag_consumed_by_sculpt = FALSE,
                 !.cached_normals = Some(PointNormals(m)),
                 !.sculpt_total = 0, !.axis_total_signed = 0]

\* ------------------------------------------------------------ mesh ops
\* _post_mesh_op_fixup that keeps the normals it had
post_mesh_op_fixup_stale(e) ==
    IF e.mesh = None THEN {e}
    ELSE LET m == Clean(e.mesh[1])
         IN {[e EXCEPT !.mesh = Some(m), !.points = Some(m.pts)]}
\* _post_mesh_op_fixup: self.mesh already holds the filter's output
post_mesh_op_fixup(e) ==
    IF e.mesh = None THEN {e}
    ELSE LET m == Clean(e.mesh[1])
         IN {[e EXCEPT !.mesh = Some(m), !.points = Some(m.pts),
                       !.cached_normals = Some(n)] : n \in NormalsOutcomes(m)}

\* subdivide_mesh; outcome is what the two library calls did: "loop" (the
\* first succeeded), "linear" (the first raised, the second succeeded) or
\* "raise" (both raised)
subdivide_mesh(e, it, outcome) ==
    IF e.mesh = None THEN {e}
    ELSE LET e1 == push_undo(e)
         IN IF outcome = "raise"
            THEN {[x EXCEPT !.lastOp = "subdivide_failed"] : x \in do_undo(e1)}
            ELSE {[x EXCEPT !.lastOp = "subdivide_ok"]
                  : x \in post_mesh_op_fixup(
                              [e1 EXCEPT !.mesh = Some(Subdivide(e.mesh[1], it))])}

\* decimate_mesh; pct is the slider's percent
decimate_mesh(e, pct, outcome) ==
    IF e.mesh = None THEN {e}
    ELSE LET e1 == push_undo(e)
         IN IF outcome = "raise"
            THEN {[x EXCEPT !.lastOp = "decimate_failed"] : x \in do_undo(e1)}
            ELSE {[x EXCEPT !.lastOp = "decimate_ok"]
                  : x \in post_mesh_op_fixup(
                              [e1 EXCEPT !.mesh = Some(DecimatePro(e.mesh[1], pct))])}

\* ------------------------------------------------------------ sculpting
\* _clamp_vec
clamp_vec(v, max_len) ==
    IF Norm2(v) <= max_len * max_len THEN v
    ELSE VTDiv(VScale(v, max_len), CeilSqrt(Norm2(v)))

\* _start_sculpting that does not seed last_pick
start_sculpting_nopick(e, pick) ==
    IF e.mesh = None \/ e.anchor = None THEN e
    ELSE IF e.sculpting THEN [e EXCEPT !.lastOp = "start_again"]
    ELSE LET e1 == push_undo([e EXCEPT !.sculpting = TRUE])
         IN [e1 EXCEPT !.drag_consumed_by_sculpt = TRUE,
                       !.last_pick = None,
                       !.sculpt_total = 0, !.axis_total_signed = 0,
                       !.lastOp = "start_sculpting",
                       !.drag0 = Some([pts |-> e.points[1], undo |-> e.undo,
                                       pick |-> pick])]
\* _start_sculpting; pick is pick_world_point(start_pos)
start_sculpting(e, pick) ==
    IF e.mesh = None \/ e.anchor = None THEN e
    ELSE IF e.sculpting THEN [e EXCEPT !.lastOp = "start_again"]
    ELSE LET e1 == push_undo([e EXCEPT !.sculpting = TRUE])
         IN [e1 EXCEPT !.drag_consumed_by_sculpt = TRUE,
                       !.last_pick = pick,
                       !.sculpt_total = 0, !.axis_total_signed = 0,
                       !.lastOp = "start_sculpting",
                       !.drag0 = Some([pts |-> e.points[1], undo |-> e.undo,
                                       pick |-> pick])]

\* the Grab limit taken from the mesh alone
MaxGrab_step(e) == e.max_step_world
\* min(self._max_step_world, max(0.25, 0.15 * self.radius))
MaxGrab(e) == Min(e.max_step_world, Max(WorldScale \div 4, (15 * e.radius) \div 100))
\* the Inflate/Deflate limit taken from the radius alone
MaxAmt_radius(e) == Max(WorldScale \div 5, (12 * e.radius) \div 100)
\* min(self._max_amount_world, max(0.20, 0.12 * self.radius))
MaxAmt(e) == Min(e.max_amount_world, Max(WorldScale \div 5, (12 * e.radius) \div 100))
\* float(np.clip(self.strength, 0.0, 2.5))
EffStrength(e) == Clip(e.strength, 0, 250)

Applied(x, op) ==
    [x EXCEPT !.lastOp = op, !.sinceApplied = [ms |-> 0, gap |-> x.sinceApplied.ms]]

\* the constrained Grab branch without the projection on the axis
grab_axis_step_free(e, delta_raw) ==
    LET signed_step == Clip(Dot(delta_raw, e.axis[1]), -MaxGrab(e), MaxGrab(e))
        delta == clamp_vec(delta_raw, MaxGrab(e))
        e1 == [e EXCEPT !.axis_total_signed = @ + signed_step,
                        !.sculpt_total = @ + Abs(signed_step)]
    IN {Applied(x, "tick_grab_axis")
        : x \in set_points(e1, grab_deform(e.points[1], e.anchor[1], delta,
                                           e.radius, EffStrength(e)))}
\* the call of grab_deform that a Grab tick makes
GrabCall(e, delta) ==
    Some([fn |-> "grab_deform",
          args |-> [pts |-> e.points[1], anchor |-> e.anchor[1], delta |-> delta,
                    radius |-> e.radius, strength |-> EffStrength(e)],
          out |-> grab_deform(e.points[1], e.anchor[1], delta, e.radius,
                              EffStrength(e))])

\* the constrained Grab branch that adds nothing to the unsigned total
grab_axis_step_nototal(e, delta_raw) ==
    LET signed_step == Clip(Dot(delta_raw, e.axis[1]), -MaxGrab(e), MaxGrab(e))
        delta == VScale(e.axis[1], signed_step)
        c == GrabCall(e, delta)
        e1 == [e EXCEPT !.axis_total_signed = @ + signed_step, !.call = c]
    IN {Applied(x, "tick_grab_axis") : x \in set_points(e1, c[1].out)}
\* sculpt_step, the constrained Grab branch
grab_axis_step(e, delta_raw) ==
    LET signed_step == Clip(Dot(delta_raw, e.axis[1]), -MaxGrab(e), MaxGrab(e))
        delta == VScale(e.axis[1], signed_step)
        c == GrabCall(e, delta)
        e1 == [e EXCEPT !.axis_total_signed = @ + signed_step,
                        !.sculpt_total = @ + Abs(signed_step),
                        !.call = c]
    IN {Applied(x, "tick_grab_axis") : x \in set_points(e1, c[1].out)}

\* the free Grab branch taking a snapshot of its own
grab_free_step_push(e, delta_raw) ==
    LET delta == clamp_vec(delta_raw, MaxGrab(e))
        e1 == [push_undo(e) EXCEPT !.sculpt_total = @ + Norm(delta)]
    IN {Applied(x, "tick_grab")
        : x \in set_points(e1, grab_deform(e.points[1], e.anchor[1], delta,
                                           e.radius, EffStrength(e)))}
\* sculpt_step, the free Grab branch
grab_free_step(e, delta_raw) ==
    LET delta == clamp_vec(delta_raw, MaxGrab(e))
        c == GrabCall(e, delta)
        e1 == [e EXCEPT !.sculpt_total = @ + Norm(delta), !.call = c]
    IN {Applied(x, "tick_grab") : x \in set_points(e1, c[1].out)}

\* sculpt_step, the branches that read the normal cache
normals_step(e, delta_raw) ==
    LET refresh == e.cached_normals = None \/ e.normals_elapsed > normals_min_dt_ms
        R == IF refresh
             THEN {[e EXCEPT !.cached_normals = Some(n), !.normals_elapsed = 0]
                   : n \in NormalsOutcomes(e.mesh[1])}
             ELSE {e}
        drag == Norm(delta_raw)
        step(e1) ==
            IF e1.cached_normals = None THEN {[e1 EXCEPT !.lastOp = "tick_no_normals"]}
            ELSE IF e1.brush \in {"PULLISTA", "PAINA"}
            THEN LET sign == IF e1.brush = "PULLISTA" THEN 1 ELSE -1
                     amount == Clip(TDiv(sign * EffStrength(e1) * drag * 2, 100),
                                    -MaxAmt(e1), MaxAmt(e1))
                     out == inflate_deflate(e1.points[1], e1.anchor[1],
                                            e1.cached_normals[1].vec, e1.radius, amount)
                     c == Some([fn |-> "inflate_deflate",
                                args |-> [pts |-> e1.points[1], anchor |-> e1.anchor[1],
                                          normals |-> e1.cached_normals[1].vec,
                                          radius |-> e1.radius, amount |-> amount],
                                out |-> out])
                 IN {Applied(x, "tick_inflate")
                     : x \in set_points([e1 EXCEPT !.call = c], out)}
            ELSE IF e1.brush = "SILOTA"
            THEN LET eff == (EffStrength(e1) * Max(e1.smooth_amount, 5)) \div 100
                     out == local_smooth(e1.points[1], e1.anchor[1], e1.radius, eff, drag)
                     c == Some([fn |-> "local_smooth",
                                args |-> [pts |-> e1.points[1], anchor |-> e1.anchor[1],
                                          radius |-> e1.radius, strength |-> eff,
                                          drag_len |-> drag],
                                out |-> out])
                 IN {Applied(x, "tick_smooth")
                     : x \in set_points([e1 EXCEPT !.call = c], out)}
            ELSE {[e1 EXCEPT !.lastOp = "tick_no_brush"]}
    IN UNION {step(e1) : e1 \in R}

\* a rate limit that lets every tick through
rate_never(e) == FALSE
\* sculpt_step, the rate limit
rate_limited(e) == e.sculpt_elapsed < sculpt_min_dt_ms

\* sculpt_step that picks before it looks at the rate timer
sculpt_step_eagerpick(e, p) ==
    IF e.mesh = None \/ e.points = None \/ e.anchor = None
    THEN {[e EXCEPT !.lastOp = "other"]}
    ELSE IF rate_limited(e)
    THEN {[e EXCEPT !.last_pick = IF p = None THEN @ ELSE p,
                    !.lastOp = "tick_rate_limited"]}
    ELSE LET e1 == [e EXCEPT !.sculpt_elapsed = 0]
         IN IF p = None THEN {[e1 EXCEPT !.lastOp = "tick_pick_miss"]}
            ELSE IF e1.last_pick = None
            THEN {[e1 EXCEPT !.last_pick = p, !.lastOp = "tick_first_pick"]}
            ELSE LET e2 == [e1 EXCEPT !.last_pick = p]
                     delta_raw == clamp_vec(VSub(p[1], e1.last_pick[1]), e1.max_step_world)
                 IN IF Norm2(delta_raw) = 0 THEN {[e2 EXCEPT !.lastOp = "tick_noise"]}
                    ELSE IF e2.brush = "TARTU" /\ e2.axis # None
                    THEN grab_axis_step(e2, delta_raw)
                    ELSE IF e2.brush = "TARTU" THEN grab_free_step(e2, delta_raw)
                    ELSE normals_step(e2, delta_raw)
\* sculpt_step without the noise floor
sculpt_step_nofloor(e, p) ==
    IF e.mesh = None \/ e.points = None \/ e.anchor = None
    THEN {[e EXCEPT !.lastOp = "other"]}
    ELSE IF rate_limited(e)
    THEN {[e EXCEPT !.lastOp = "tick_rate_limited"]}
    ELSE LET e1 == [e EXCEPT !.sculpt_elapsed = 0]
         IN IF p = None THEN {[e1 EXCEPT !.lastOp = "tick_pick_miss"]}
            ELSE IF e1.last_pick = None
            THEN {[e1 EXCEPT !.last_pick = p, !.lastOp = "tick_first_pick"]}
            ELSE LET e2 == [e1 EXCEPT !.last_pick = p]
                     delta_raw == clamp_vec(VSub(p[1], e1.last_pick[1]), e1.max_step_world)
                 IN IF e2.brush = "TARTU" /\ e2.axis # None
                    THEN grab_axis_step(e2, delta_raw)
                    ELSE IF e2.brush = "TARTU" THEN grab_free_step(e2, delta_raw)
                    ELSE normals_step(e2, delta_raw)
\* sculpt_step; p is pick_world_point(qpos)
sculpt_step(e, p) ==
    IF e.mesh = None \/ e.points = None \/ e.anchor = None
    THEN {[e EXCEPT !.lastOp = "other"]}
    ELSE IF rate_limited(e)
    THEN {[e EXCEPT !.lastOp = "tick_rate_limited"]}
    ELSE LET e1 == [e EXCEPT !.sculpt_elapsed = 0]
         IN IF p = None THEN {[e1 EXCEPT !.lastOp = "tick_pick_miss"]}
            ELSE IF e1.last_pick = None
            THEN {[e1 EXCEPT !.last_pick = p, !.lastOp = "tick_first_pick"]}
            ELSE LET e2 == [e1 EXCEPT !.last_pick = p]
                     delta_raw == clamp_vec(VSub(p[1], e1.last_pick[1]), e1.max_step_world)
                 IN IF Norm2(delta_raw) = 0 THEN {[e2 EXCEPT !.lastOp = "tick_noise"]}
                    ELSE IF e2.brush = "TARTU" /\ e2.axis # None
                    THEN grab_axis_step(e2, delta_raw)
                    ELSE IF e2.brush = "TARTU" THEN grab_free_step(e2, delta_raw)
                    ELSE normals_step(e2, delta_raw)

\* ------------------------------------------------------------ mouse events
\* set_anchor_at_mouse; pick is pick_world_point(qpos)
set_anchor_at_mouse(e, pick) ==
    IF pick = None THEN [e EXCEPT !.lastOp = "click_miss"]
    ELSE [e EXCEPT !.anchor = pick, !.lastOp = "click_anchor"]

\* the pointer at pos is click_move_threshold_px or more from the press position
FarFrom(e, pos) ==
    /\ e.press_pos # None
    /\ (pos[1] - e.press_pos[1][1]) * (pos[1] - e.press_pos[1][1])
         + (pos[2] - e.press_pos[1][2]) * (pos[2] - e.press_pos[1][2])
           >= click_move_threshold_px * click_move_threshold_px

\* a press that takes its snapshot before it looks for the anchor
mouse_press_push(e, pos, shift, pick) ==
    IF e.mesh = None THEN [e EXCEPT !.lastOp = "other"]
    ELSE LET e1 == [e EXCEPT !.lmb_down = TRUE, !.press_pos = Some(pos),
                             !.moved = FALSE, !.drag_consumed_by_sculpt = FALSE,
                             !.farMoved = FALSE, !.lastOp = "other"]
         IN IF shift
            THEN IF e1.anchor = None
                 THEN [push_undo(e1) EXCEPT !.lastOp = "press_no_anchor"]
                 ELSE start_sculpting(e1, pick)
            ELSE e1
\* eventFilter, MouseButtonPress with the left button
mouse_press(e, pos, shift, pick) ==
    IF e.mesh = None THEN [e EXCEPT !.lastOp = "other"]
    ELSE LET e1 == [e EXCEPT !.lmb_down = TRUE, !.press_pos = Some(pos),
                             !.moved = FALSE, !.drag_consumed_by_sculpt = FALSE,
                             !.farMoved = FALSE, !.lastOp = "other"]
         IN IF shift
            THEN IF e1.anchor = None THEN [e1 EXCEPT !.lastOp = "press_no_anchor"]
                 ELSE start_sculpting(e1, pick)
            ELSE e1

\* eventFilter, MouseMove; left is event.buttons() & LeftButton
mouse_move(e, pos, left, shift, pick) ==
    IF e.mesh = None THEN {[e EXCEPT !.lastOp = "other"]}
    ELSE LET g == [e EXCEPT !.farMoved = @ \/ (e.lmb_down /\ left /\ FarFrom(e, pos))]
         IN IF g.lmb_down /\ left
            THEN IF ~g.sculpting /\ shift
                 THEN IF g.anchor = None THEN {[g EXCEPT !.lastOp = "move_no_anchor"]}
                      ELSE {start_sculpting([g EXCEPT !.lastOp = "other"], pick)}
                 ELSE IF g.sculpting THEN sculpt_step(g, pick)
                 ELSE {[g EXCEPT !.moved = IF FarFrom(g, pos) THEN TRUE ELSE @,
                                 !.lastOp = "other"]}
            ELSE {[g EXCEPT !.lastOp = "other"]}

\* a release that ends the session and keeps last_pick
mouse_release_keeppick(e, pos, pick) ==
    IF e.sculpting
    THEN [e EXCEPT !.sculpting = FALSE,
                   !.drag_consumed_by_sculpt = FALSE, !.lmb_down = FALSE,
                   !.lastOp = "release_end"]
    ELSE IF e.lmb_down
    THEN LET e1 == [e EXCEPT !.lmb_down = FALSE, !.lastOp = "other"]
         IN IF e1.mesh # None /\ ~e1.moved
            THEN [set_anchor_at_mouse(e1, pick) EXCEPT !.sculpt_total = 0,
                                                       !.axis_total_signed = 0]
            ELSE e1
    ELSE [e EXCEPT !.lastOp = "other"]
\* eventFilter, MouseButtonRelease with the left button.  The button goes up
\* where the last move event left the pointer, so farMoved is what the moves
\* of the gesture made it.
mouse_release(e, pos, pick) ==
    LET g == e
    IN IF g.sculpting
       THEN [g EXCEPT !.sculpting = FALSE, !.last_pick = None,
                      !.drag_consumed_by_sculpt = FALSE, !.lmb_down = FALSE,
                      !.lastOp = "release_end"]
       ELSE IF g.lmb_down
       THEN LET e1 == [g EXCEPT !.lmb_down = FALSE, !.lastOp = "other"]
            IN IF e1.mesh # None /\ ~e1.moved
               THEN [set_anchor_at_mouse(e1, pick) EXCEPT !.sculpt_total = 0,
                                                          !.axis_total_signed = 0]
               ELSE e1
       ELSE [g EXCEPT !.lastOp = "other"]

\* ShortcutEater._match / eventFilter: key with its modifier set
shortcut(e, key, mods) ==
    IF key = "Z" /\ mods = {"ctrl"}
    THEN {[x EXCEPT !.lastOp = "undo", !.drag0 = None] : x \in do_undo(e)}
    ELSE IF key = "Y" /\ mods = {"ctrl"}
    THEN {[x EXCEPT !.lastOp = "redo", !.drag0 = None] : x \in do_redo(e)}
    ELSE {[e EXCEPT !.lastOp = "other"]}

\* ------------------------------------------------------------ inputs
\* What the environment feeds the handlers.  A specification fixes the sets
\* its events draw from (an input profile); the handlers are the same in all.
\* the meshes a file can hold (already triangulated and cleaned)
LoadMeshes ==
    {[faces |-> {<<1, 2, 3>>}, pts |-> <<<<0, 0, 0>>, <<1000, 0, 0>>, <<0, 500, 0>>>>]}
\* world points the picker can return
PickPoints == {<<0, 0, 0>>, <<40, 30, 0>>}
Brushes == {"TARTU", "PULLISTA", "PAINA", "SILOTA"}
AxisModes == {"VAPAA", "X", "Y", "Z"}

MainInputs ==
    [meshes |-> LoadMeshes,
     clickPicks |-> {None, Some(<<0, 0, 0>>)},
     pressPicks |-> {None} \cup {Some(p) : p \in PickPoints},
     dragPicks |-> {None} \cup {Some(p) : p \in PickPoints},
     moveShifts |-> BOOLEAN,
     pixels |-> {<<0, 0>>},
     brushes |-> {"TARTU", "PULLISTA"},
     axes |-> AxisModes,
     radii |-> {10},
     strengths |-> {100},
     smooths |-> {50},
     subIters |-> {1},
     subOutcomes |-> {"loop", "linear", "raise"},
     decPcts |-> {50},
     decOutcomes |-> {"ok", "raise"},
     keys |-> {"Z", "Y"},
     mods |-> {{"ctrl"}, {"ctrl", "shift"}},
     timeSteps |-> {15, 81},
     maxSteps |-> MaxSteps,
     history |-> FALSE,
     calls |-> FALSE]

\* ------------------------------------------------------------ actions
\* One handler run: the editor becomes e.  A run that changes the editor
\* counts against the profile's step bound.
\* A profile with history = TRUE records hist and has no step bound; a
\* profile with calls = TRUE records the brush helper call of each tick.
Core(e) == [e EXCEPT !.lastOp = "other", !.steps = 0]
Run(I, e) ==
    LET y == IF I.calls THEN e ELSE [e EXCEPT !.call = None]
    IN IF I.history THEN Install(y)
       ELSE LET x == [y EXCEPT !.hist = Hist0]
            IN IF Core(x) = Core(Self) THEN Install(x)
               ELSE steps < I.maxSteps /\ Install([x EXCEPT !.steps = steps + 1])

LoadStl(I) ==
    \E m \in I.meshes :
        Run(I, [load_stl(Self, m) EXCEPT !.lastOp = "load", !.drag0 = None,
                                         !.hist = Hist0])

\* pick_world_point runs only on the branches that call it: elsewhere there
\* is no pick to draw
PickIf(called, picks) == IF called THEN picks ELSE {None}

MousePress(I) ==
    \E pos \in I.pixels, shift \in BOOLEAN :
        \E pick \in PickIf(shift /\ mesh # None /\ anchor # None /\ ~sculpting,
                            I.pressPicks) :
            Run(I, mouse_press(Self, pos, shift, pick))

\* A pointer move arrives dt ms after the event before it.  The two timers
\* are read by sculpt_step alone, so the time that passes between other events
\* is part of the dt of the next move.
Elapse(e, dt) ==
    [e EXCEPT !.sculpt_elapsed = Min(@ + dt, sculpt_min_dt_ms),
              !.normals_elapsed = Min(@ + dt, normals_min_dt_ms + 1),
              !.sinceApplied.ms = Min(@ + dt, sculpt_min_dt_ms)]

MouseMove(I) ==
    \E dt \in I.timeSteps, pos \in I.pixels, left \in BOOLEAN, shift \in I.moveShifts :
        \E pick \in PickIf(/\ mesh # None /\ anchor # None /\ lmb_down /\ left
                            /\ (sculpting \/ shift),
                            I.dragPicks) :
            \E e \in mouse_move(Elapse(Self, dt), pos, left, shift, pick) : Run(I, e)

MouseRelease(I) ==
    \E pos \in I.pixels :
        \E pick \in PickIf(mesh # None /\ ~sculpting /\ lmb_down /\ ~moved, I.clickPicks) :
            Run(I, mouse_release(Self, pos, pick))

\* the menu actions and QShortcuts connected to do_undo / do_redo
DoUndo(I) ==
    \E e \in do_undo(Self) :
        Run(I, [e EXCEPT !.lastOp = "undo", !.drag0 = None,
                         !.hist.undos = @ + 1,
                         !.hist.final = IF hist.undos = 0 THEN points ELSE @])

DoRedo(I) ==
    \E e \in do_redo(Self) :
        Run(I, [e EXCEPT !.lastOp = "redo", !.drag0 = None, !.hist.redos = @ + 1])

KeyPress(I) ==
    \E key \in I.keys, mods \in I.mods :
        \E e \in shortcut(Self, key, mods) : Run(I, e)

SubdivideMesh(I) ==
    \E it \in I.subIters, outcome \in I.subOutcomes :
        /\ mesh # None
        /\ steps < I.maxSteps
        /\ outcome # "raise" => SubdividedVerts(mesh[1], it) <= MaxVerts
        /\ \E e \in subdivide_mesh(Self, it, outcome) : Run(I, [e EXCEPT !.drag0 = None])

DecimateMesh(I) ==
    \E pct \in I.decPcts, outcome \in I.decOutcomes :
        /\ mesh # None
        /\ steps < I.maxSteps
        /\ \E e \in decimate_mesh(Self, pct, outcome) : Run(I, [e EXCEPT !.drag0 = None])

\* set_brush
SetBrush(I) ==
    \E name \in I.brushes :
        Run(I, [Self EXCEPT !.brush = name, !.lastOp = "other"])

\* set_axis_mode
SetAxisMode(I) ==
    \E mode \in I.axes :
        Run(I, [Self EXCEPT !.axis_mode = mode,
                            !.axis = IF mode \in {"X", "Y", "Z"}
                                     THEN safe_unit_axis(mode) ELSE None,
                            !.lastOp = "other"])

\* _on_radius, _on_strength, _on_smooth
OnRadius(I) ==
    \E v \in I.radii :
        Run(I, [Self EXCEPT !.radius = v * WorldScale, !.lastOp = "other"])
OnStrength(I) ==
    \E v \in I.strengths :
        Run(I, [Self EXCEPT !.strength = v, !.lastOp = "other"])
OnSmooth(I) ==
    \E v \in I.smooths :
        Run(I, [Self EXCEPT !.smooth_amount = v, !.lastOp = "other"])

NextIn(I) ==
    \/ LoadStl(I) \/ MousePress(I) \/ MouseMove(I) \/ MouseRelease(I)
    \/ DoUndo(I) \/ DoRedo(I) \/ KeyPress(I)
    \/ SubdivideMesh(I) \/ DecimateMesh(I)
    \/ SetBrush(I) \/ SetAxisMode(I) \/ OnRadius(I) \/ OnStrength(I) \/ OnSmooth(I)

Next == NextIn(MainInputs)
Spec == Init /\ [][Next]_vars

\* ------------------------------------------------------------ long histories
\* One user who loads a file, sets the anchor, performs up to MaxPushes drag
\* sessions that each move the mesh, then undoes all of them and redoes all of
\* them.  The handlers are those of Spec; only the order of the events is
\* fixed, so that the history can grow past stack_max.
MaxPushes == 35
HistInputs ==
    [MainInputs EXCEPT !.clickPicks = {Some(<<0, 0, 0>>)},
                       !.pressPicks = {Some(<<0, 0, 0>>)},
                       !.dragPicks = {Some(<<40, 30, 0>>)},
                       !.moveShifts = {FALSE},
                       !.timeSteps = {81},
                       !.brushes = {"TARTU"},
                       !.history = TRUE]

HistPress ==
    /\ hist.undos = 0 /\ ~lmb_down
    /\ Len(hist.pushLog) < MaxPushes
    /\ MousePress(HistInputs)
HistMove == lmb_down /\ MouseMove(HistInputs)
HistRelease ==
    /\ sculpting => last_pick \in HistInputs.dragPicks
    /\ MouseRelease(HistInputs)
HistUndo ==
    /\ ~lmb_down /\ hist.redos = 0
    /\ hist.undos < Len(hist.pushLog)
    /\ DoUndo(HistInputs)
HistRedo ==
    /\ hist.undos > 0 /\ hist.undos = Len(hist.pushLog)
    /\ hist.redos < hist.undos
    /\ DoRedo(HistInputs)

NextHist ==
    \/ LoadStl(HistInputs) \/ HistPress \/ HistMove \/ HistRelease
    \/ HistUndo \/ HistRedo
SpecHist == Init /\ [][NextHist]_vars

\* The same user, who once the undo stack is full also asks, between drag
\* sessions, for a subdivision that the library refuses.
FailInputs == [HistInputs EXCEPT !.subOutcomes = {"raise"}]
HistSubdivide ==
    /\ hist.undos = 0 /\ ~lmb_down
    /\ Len(undo) = stack_max
    /\ Len(hist.pushLog) < MaxPushes
    /\ SubdivideMesh(FailInputs)
NextHistOps == NextHist \/ HistSubdivide
SpecHistOps == Init /\ [][NextHistOps]_vars

\* ------------------------------------------------------------ pointer gestures
\* One user with the mouse alone: the pointer is at the press position or
\* click_move_threshold_px away from it, a pick can miss the mesh, and Shift
\* can be held or not on every event.
ClickSteps == 8
ClickInputs ==
    [MainInputs EXCEPT !.clickPicks = {None, Some(<<0, 0, 0>>)},
                       !.pressPicks = {Some(<<0, 0, 0>>)},
                       !.dragPicks = {None, Some(<<40, 30, 0>>)},
                       !.pixels = {<<0, 0>>, <<click_move_threshold_px, 0>>},
                       !.timeSteps = {81},
                       !.brushes = {"TARTU"},
                       !.maxSteps = ClickSteps]
NextClick ==
    \/ LoadStl(ClickInputs) \/ MousePress(ClickInputs)
    \/ MouseMove(ClickInputs) \/ MouseRelease(ClickInputs)
SpecClick == Init /\ [][NextClick]_vars

\* ------------------------------------------------------------ switches in a drag
\* One user with the mouse who also switches the brush and the axis mode at
\* any time, also in the middle of a drag.
SwitchSteps == 8
SwitchInputs ==
    [MainInputs EXCEPT !.clickPicks = {Some(<<0, 0, 0>>)},
                       !.pressPicks = {Some(<<0, 0, 0>>)},
                       !.dragPicks = {Some(<<0, 0, 0>>), Some(<<40, 30, 0>>)},
                       !.moveShifts = {TRUE},
                       !.timeSteps = {81},
                       !.axes = {"VAPAA", "X"},
                       !.maxSteps = SwitchSteps]
NextSwitch ==
    \/ LoadStl(SwitchInputs) \/ MousePress(SwitchInputs)
    \/ MouseMove(SwitchInputs) \/ MouseRelease(SwitchInputs)
    \/ SetBrush(SwitchInputs) \/ SetAxisMode(SwitchInputs)
SpecSwitch == Init /\ [][NextSwitch]_vars

\* ------------------------------------------------------------ brush settings
\* One user who chooses brush, axis, radius and strength before loading a
\* file, small or large, then sets the anchor and drags, with picks near and
\* far from each other.
TickSteps == 10
\* a triangle 100 mm across: its step limits are above the smallest ones
LargeMesh ==
    [faces |-> {<<1, 2, 3>>}, pts |-> <<<<0, 0, 0>>, <<8000, 0, 0>>, <<0, 6000, 0>>>>]
TickInputs ==
    [MainInputs EXCEPT !.meshes = LoadMeshes \cup {LargeMesh},
                       !.clickPicks = {Some(<<0, 0, 0>>)},
                       !.pressPicks = {Some(<<0, 0, 0>>)},
                       !.dragPicks = {Some(<<40, 30, 0>>), Some(<<4000, 3000, 0>>)},
                       !.moveShifts = {TRUE},
                       !.timeSteps = {81},
                       !.brushes = Brushes,
                       !.axes = {"VAPAA", "X"},
                       !.radii = {1, 10},
                       !.strengths = {1, 250},
                       !.maxSteps = TickSteps,
                       !.calls = TRUE]
NextTick ==
    \/ mesh = None /\ LoadStl(TickInputs)
    \/ MousePress(TickInputs) \/ MouseMove(TickInputs) \/ MouseRelease(TickInputs)
    \/ mesh = None /\ SetBrush(TickInputs)
    \/ mesh = None /\ SetAxisMode(TickInputs)
    \/ mesh = None /\ OnRadius(TickInputs)
    \/ mesh = None /\ OnStrength(TickInputs)
SpecTick == Init /\ [][NextTick]_vars

\* ------------------------------------------------------------ brush helpers alone
\* The brush helpers are pure functions: this specification calls each of them
\* on inputs drawn from the sets below and records the call.
MaxFalloffRadius == 4
MaxFalloffDist == 6
\* 1e-9 in the length unit of the falloff calls made at that resolution
NanoFloor == 2

\* the four vertices of a unit corner, and one vertex three units away
CornerBuffer ==
    <<<<0, 0, 0>>, <<100, 0, 0>>, <<0, 100, 0>>, <<0, 0, 100>>, <<300, 0, 0>>>>
\* eight vertices 0.3 apart, one 0.9 from the origin and one three units away
ClusterBuffer ==
    <<<<0, 0, 0>>, <<30, 0, 0>>, <<0, 30, 0>>, <<0, 0, 30>>, <<30, 30, 0>>,
      <<30, 0, 30>>, <<0, 30, 30>>, <<30, 30, 30>>, <<90, 0, 0>>, <<300, 0, 0>>>>
BrushBuffers == {CornerBuffer, ClusterBuffer}
BrushAnchors == {<<0, 0, 0>>, <<500, 500, 500>>}
BrushRadii == {0, 100, 1000}
BrushDeltas == {<<0, 0, 0>>, <<0, 0, 100>>, <<40, 30, 0>>}
BrushStrengths == {50, 100}
BrushAmounts == {-20, 0, 20}
BrushDragLens == {0, 10, 50}
\* per-vertex unit normals: all along one axis
BrushNormals(pts) ==
    {[i \in 1..Len(pts) |-> <<0, 0, WeightOne>>], [i \in 1..Len(pts) |-> <<WeightOne, 0, 0>>]}

CallFalloff ==
    \E floor \in {0, NanoFloor}, d \in 0..MaxFalloffDist, rad \in 0..MaxFalloffRadius :
        /\ call' = Some([fn |-> "gaussian_falloff",
                         args |-> [floor |-> floor, d |-> d, radius |-> rad],
                         out |-> gaussian_falloff_unit(floor, d * d, rad)])
        /\ UNCHANGED EditorVars

CallGrab ==
    \E pts \in BrushBuffers, a \in BrushAnchors, delta \in BrushDeltas,
       rad \in BrushRadii, s \in BrushStrengths :
        /\ call' = Some([fn |-> "grab_deform",
                         args |-> [pts |-> pts, anchor |-> a, delta |-> delta,
                                   radius |-> rad, strength |-> s],
                         out |-> grab_deform(pts, a, delta, rad, s)])
        /\ UNCHANGED EditorVars

CallInflate ==
    \E pts \in BrushBuffers, a \in BrushAnchors, rad \in BrushRadii,
       amount \in BrushAmounts :
        \E normals \in BrushNormals(pts) :
            /\ call' = Some([fn |-> "inflate_deflate",
                             args |-> [pts |-> pts, anchor |-> a, normals |-> normals,
                                       radius |-> rad, amount |-> amount],
                             out |-> inflate_deflate(pts, a, normals, rad, amount)])
            /\ UNCHANGED EditorVars

CallSmooth ==
    \E pts \in BrushBuffers, a \in BrushAnchors, rad \in BrushRadii,
       s \in BrushStrengths, drag \in BrushDragLens :
        /\ call' = Some([fn |-> "local_smooth",
                         args |-> [pts |-> pts, anchor |-> a, radius |-> rad,
                                   strength |-> s, drag_len |-> drag],
                         out |-> local_smooth(pts, a, rad, s, drag)])
        /\ UNCHANGED EditorVars

NextBrush == CallFalloff \/ CallGrab \/ CallInflate \/ CallSmooth
SpecBrush == Init /\ [][NextBrush]_vars

\* ------------------------------------------------------------ properties
FailedOps == {"subdivide_failed", "decimate_failed"}
TopologyOps == {"subdivide_ok", "decimate_ok"}
AppliedTicks == {"tick_grab_axis", "tick_grab", "tick_inflate", "tick_smooth"}
TickOps ==
    AppliedTicks \cup {"tick_rate_limited", "tick_pick_miss", "tick_first_pick",
                       "tick_noise", "tick_no_normals", "tick_no_brush"}
\* the last n entries of a sequence
LastN(q, n) == SubSeq(q, Max(1, Len(q) - n + 1), Len(q))

\* C1, as stated: after N edits, each with its snapshot, N undos restore the
\* buffer from before the first edit and N redos then restore the buffer from
\* after the last one, for every N.
C1_RoundTripAnyN ==
    LET N == Len(hist.pushLog)
    IN /\ (N > 0 /\ hist.undos = N /\ hist.redos = 0) => points = Some(hist.pushLog[1])
       /\ (N > 0 /\ hist.undos = N /\ hist.redos = N) => points = hist.final

\* C1, amended: N undos restore the buffer from before the first edit when
\* N <= stack_max; with more edits they stop at the oldest snapshot the stack
\* still holds, the buffer from before edit N - stack_max + 1.  N redos then
\* restore the buffer from after the last edit.
C1_RoundTrip ==
    LET N == Len(hist.pushLog)
    IN /\ (N > 0 /\ hist.undos = N /\ hist.redos = 0)
            => points = Some(hist.pushLog[Max(1, N - stack_max + 1)])
       /\ (N > 0 /\ hist.undos = N /\ hist.redos = N) => points = hist.final

\* stack_max edits undone: the buffer is the one from before the first edit
C1_Witness ==
    /\ Len(hist.pushLog) = stack_max /\ hist.undos = stack_max /\ hist.redos = 0
    /\ points = Some(hist.pushLog[1])
    /\ hist.final # points

\* C2, as stated: when subdivide_mesh or decimate_mesh has failed, the redo
\* stack is empty.
C2_RedoEmptyAfterFailure == lastOp \in FailedOps => redo = <<>>

\* C3: a failed subdivide_mesh or decimate_mesh leaves the vertex buffer and
\* the mesh (points and faces) as they were before the call.
C3_FailureLeavesMesh ==
    [][lastOp' \in FailedOps => (points' = points /\ mesh' = mesh)]_vars

\* a failure with an older, different snapshot on the undo stack
C3_Witness ==
    /\ lastOp \in FailedOps
    /\ undo # <<>> /\ Some(undo[Len(undo)]) # points

\* C4, as stated: every face index is a slot of the vertex buffer, and the
\* buffer has one position per vertex of the mesh.
C4_FacesIndexBuffer ==
    mesh # None =>
        /\ FacesValid([mesh[1] EXCEPT !.pts = points[1]])
        /\ Len(points[1]) = Cardinality(UsedVertices(mesh[1]))

\* C5, as stated: right after a sculpt tick or a topology operation changed
\* the vertex buffer, the redo stack is empty and the undo stack holds the
\* snapshot taken for that gesture.
C5_MutationCovered ==
    [][(lastOp' \in AppliedTicks \cup TopologyOps /\ points' # points)
         => (redo' = <<>> /\ undo' # <<>>
             /\ (lastOp' \in TopologyOps => Some(undo'[Len(undo')]) = points)
             /\ (lastOp' \in AppliedTicks
                   => drag0 # None /\ undo'[Len(undo')] = drag0[1].pts))]_vars

\* the undo stack a drag session has while no command but its own ticks ran:
\* the pre-drag buffer on top of the stack the session found (less its oldest
\* entry when that stack was full)
SessionStack ==
    /\ undo # <<>>
    /\ undo[Len(undo)] = drag0[1].pts
    /\ SubSeq(undo, 1, Len(undo) - 1) = LastN(drag0[1].undo, stack_max - 1)

C7_HistoryBound ==
    /\ Len(undo) <= stack_max
    /\ hist.undos = 0 => undo = LastN(hist.pushLog, stack_max)

\* stack_max + 5 snapshots pushed, the 6th the oldest one left
C7_Witness ==
    /\ Len(hist.pushLog) = stack_max + 5 /\ hist.undos = 0
    /\ Len(undo) = stack_max
    /\ undo[1] = hist.pushLog[6]
    /\ hist.pushLog[6] # hist.pushLog[5] /\ hist.pushLog[6] # hist.pushLog[7]

\* C8: an applied sculpt update comes at least sculpt_min_dt_ms after the
\* applied update before it.
C8_RateLimit == lastOp \in AppliedTicks => sinceApplied.gap >= sculpt_min_dt_ms

\* a tick 15 ms after an applied update of the same session, turned away
C8_Witness ==
    /\ lastOp = "tick_rate_limited" /\ sinceApplied.ms = 15
    /\ sculpting /\ drag0 # None /\ points # Some(drag0[1].pts)

\* C9, as stated: right after a successful subdivide_mesh or decimate_mesh the
\* normal cache is empty.
C9_CacheEmptyAfterTopology == lastOp \in TopologyOps => cached_normals = None

\* C9, amended: right after a successful subdivide_mesh or decimate_mesh the
\* normal cache is not empty: it holds the normals computed from the new mesh,
\* one per vertex of the new buffer.
C9_CacheFreshAfterTopology ==
    lastOp \in TopologyOps =>
        /\ cached_normals # None
        /\ cached_normals[1] \in NormalsOutcomes(mesh[1])
        /\ Len(cached_normals[1].vec) = Len(points[1])

\* a subdivision that changed the vertex count
C9_Witness ==
    /\ lastOp = "subdivide_ok" /\ Len(points[1]) = 6
    /\ cached_normals # None /\ cached_normals[1].src = points[1]

\* the index of the component along the named axis
AxisIndex(mode) == IF mode = "X" THEN 1 ELSE IF mode = "Y" THEN 2 ELSE 3

\* C10: an applied tick of the Grab brush under an axis X, Y or Z moves no
\* vertex along the two other axes.
C10_AxisGrabStaysOnAxis ==
    [][lastOp' = "tick_grab_axis"
         => /\ axis_mode \in {"X", "Y", "Z"}
            /\ Len(points'[1]) = Len(points[1])
            /\ \A i \in 1..Len(points[1]) : \A k \in (1..3) \ {AxisIndex(axis_mode)} :
                   points'[1][i][k] = points[1][i][k]]_vars

\* an applied constrained tick that moved a vertex
C10_Witness ==
    /\ lastOp = "tick_grab_axis" /\ axis # None
    /\ drag0 # None /\ points # Some(drag0[1].pts)
\* the last helper call, when it was a call of fn
Called(fn) == call # None /\ call[1].fn = fn
CallArgs == call[1].args
CallOut == call[1].out
\* the squared distance of vertex i of the call's buffer from the call's anchor
CallDist2(i) == Norm2(VSub(CallArgs.pts[i], CallArgs.anchor))

\* C11: every brush helper returns a buffer of the same length in which each
\* vertex farther from the anchor than the radius has its position; when no
\* vertex lies within the radius the result is the input buffer.
C11_BrushLocality ==
    (Called("grab_deform") \/ Called("inflate_deflate") \/ Called("local_smooth")) =>
        /\ Len(CallOut) = Len(CallArgs.pts)
        /\ \A i \in 1..Len(CallArgs.pts) :
               CallDist2(i) > CallArgs.radius * CallArgs.radius
                   => CallOut[i] = CallArgs.pts[i]
        /\ (\A i \in 1..Len(CallArgs.pts) :
               CallDist2(i) > CallArgs.radius * CallArgs.radius)
               => CallOut = CallArgs.pts

\* a grab that moved a vertex inside the radius and left one outside alone
C11_Witness ==
    /\ Called("grab_deform")
    /\ \E i \in 1..Len(CallArgs.pts) :
           CallDist2(i) > CallArgs.radius * CallArgs.radius
    /\ \E j \in 1..Len(CallArgs.pts) : CallOut[j] # CallArgs.pts[j]

\* C12, as stated: gaussian_falloff is 0 for every distance above the radius,
\* 1 at distance 0, for every radius from 0 on, and always within [0, 1].
C12_FalloffAsStated ==
    Called("gaussian_falloff") =>
        /\ CallArgs.d > CallArgs.radius => CallOut = 0
        /\ CallArgs.d = 0 => CallOut = WeightOne
        /\ 0 <= CallOut /\ CallOut <= WeightOne

\* C12, amended: the cutoff is the clamped radius max(radius, 1e-9):
\* gaussian_falloff is 0 for every distance above it, at least exp(-4.5) for
\* every distance up to it, 1 at distance 0, and always within [0, 1].
C12_FalloffClamped ==
    Called("gaussian_falloff") =>
        LET rad == Max(CallArgs.radius, CallArgs.floor)
        IN /\ CallArgs.d > rad => CallOut = 0
           /\ CallArgs.d <= rad => CallOut >= ExpTable[9]
           /\ CallArgs.d = 0 => CallOut = WeightOne
           /\ 0 <= CallOut /\ CallOut <= WeightOne

\* radius 0 and a distance above 0 that the clamped radius still covers
C12_Witness ==
    /\ Called("gaussian_falloff")
    /\ CallArgs.radius = 0 /\ CallArgs.d > 0 /\ CallArgs.d <= CallArgs.floor
    /\ CallOut > 0

\* C13, as stated: grab_deform leaves a vertex whose distance from the anchor
\* equals the radius where it was.
C13_GrabCutoffAsStated ==
    Called("grab_deform") =>
        \A i \in 1..Len(CallArgs.pts) :
            CallDist2(i) = CallArgs.radius * CallArgs.radius
                => CallOut[i] = CallArgs.pts[i]

\* C13, amended: the cutoff is strict.  A vertex at distance exactly radius
\* (radius > 0) has weight exp(-4.5), about 0.011, and moves by that weight
\* times strength times delta; a vertex at the anchor moves by strength times
\* delta.
C13_GrabAtRadius ==
    Called("grab_deform") =>
        \A i \in 1..Len(CallArgs.pts) :
            /\ (CallDist2(i) = CallArgs.radius * CallArgs.radius /\ CallArgs.radius > 0)
                 => CallOut[i] = VAdd(CallArgs.pts[i],
                                      VTDiv(VScale(CallArgs.delta,
                                                   ExpTable[9] * CallArgs.strength),
                                            WeightOne * 100))
            /\ CallDist2(i) = 0
                 => CallOut[i] = VAdd(CallArgs.pts[i],
                                      VTDiv(VScale(CallArgs.delta, CallArgs.strength), 100))

\* anchor (0,0,0), radius 1.0, strength 1.0, delta (0,0,1): the vertex at the
\* anchor moves by (0,0,1) and the vertex at (1,0,0) by (0,0,0.01)
C13_Witness ==
    /\ Called("grab_deform")
    /\ CallArgs.pts = CornerBuffer /\ CallArgs.anchor = <<0, 0, 0>>
    /\ CallArgs.radius = 100 /\ CallArgs.strength = 100
    /\ CallArgs.delta = <<0, 0, 100>>
    /\ CallOut[1] = <<0, 0, 100>> /\ CallOut[2] = <<100, 0, 1>>

\* C14: grab_deform with delta (0,0,0) and inflate_deflate with amount 0
\* return the input buffer.
C14_ZeroInputIdentity ==
    /\ (Called("grab_deform") /\ CallArgs.delta = Zero3) => CallOut = CallArgs.pts
    /\ (Called("inflate_deflate") /\ CallArgs.amount = 0) => CallOut = CallArgs.pts

\* a grab by (0,0,0) with vertices inside the radius
C14_Witness ==
    /\ Called("grab_deform") /\ CallArgs.delta = Zero3
    /\ CallArgs.strength = 100 /\ CallArgs.radius = 1000
    /\ \E i \in 1..Len(CallArgs.pts) : CallDist2(i) = 0

\* the vertices of the call's buffer within the secondary radius of vertex vi
CallNeighbours(vi) ==
    LET nb_r == Max((CallArgs.radius * 40) \div 100, (8 * WorldScale) \div 10)
    IN {j \in 1..Len(CallArgs.pts) :
           Norm2(VSub(CallArgs.pts[j], CallArgs.pts[vi])) <= nb_r * nb_r}

\* C15: local_smooth leaves every vertex with fewer than 8 vertices (itself
\* included) within max(0.40 * radius, 0.8) where it was.
C15_SmoothSkipsSparse ==
    Called("local_smooth") =>
        \A vi \in 1..Len(CallArgs.pts) :
            Cardinality(CallNeighbours(vi)) < 8 => CallOut[vi] = CallArgs.pts[vi]

\* a smooth that moved a vertex and skipped one inside the brush radius that
\* has fewer than 8 neighbours
C15_Witness ==
    /\ Called("local_smooth")
    /\ \E vi \in 1..Len(CallArgs.pts) :
           /\ CallDist2(vi) <= CallArgs.radius * CallArgs.radius
           /\ Cardinality(CallNeighbours(vi)) < 8
           /\ CallOut[vi] = CallArgs.pts[vi]
    /\ \E vj \in 1..Len(CallArgs.pts) : CallOut[vj] # CallArgs.pts[vj]

\* C16: do_undo with an empty undo stack, and do_redo with an empty redo
\* stack, change nothing: the mesh, the point buffer, both stacks, the anchor
\* and the cached normals are what they were.
C16_EmptyStackNoOp ==
    [][(\/ lastOp' = "undo" /\ undo = <<>>
        \/ lastOp' = "redo" /\ redo = <<>>)
       => /\ mesh' = mesh /\ points' = points
          /\ undo' = undo /\ redo' = redo
          /\ anchor' = anchor /\ cached_normals' = cached_normals]_vars
\* an undo was asked for on a loaded mesh with an anchor and both stacks empty
C16_Witness ==
    /\ lastOp = "undo" /\ mesh # None /\ anchor # None
    /\ undo = <<>> /\ redo = <<>>

\* C17: a Shift+press or a Shift+drag while no anchor is set starts no drag
\* session: sculpting stays false, no snapshot is pushed, and the point buffer
\* and both stacks are what they were.
C17_NoAnchorNoSession ==
    [][lastOp' \in {"press_no_anchor", "move_no_anchor"}
       => /\ anchor = None /\ ~sculpting'
          /\ points' = points /\ undo' = undo /\ redo' = redo]_vars
\* Shift was held on a press or a drag with no anchor, with edits on the stack
C17_Witness ==
    /\ lastOp \in {"press_no_anchor", "move_no_anchor"}
    /\ lmb_down /\ ~sculpting /\ undo # <<>>

\* C18: the anchor is set or moved only by a click whose pointer stayed within
\* click_move_threshold_px of the press position and whose pick hit the mesh;
\* a gesture whose pointer went that far or farther sets no anchor.
C18_AnchorOnlyByShortClick ==
    [][(anchor' # anchor /\ anchor' # None)
       => lastOp' = "click_anchor" /\ ~farMoved']_vars

\* C19: a pick that misses the mesh, on a click or on a drag tick, leaves the
\* anchor, the point buffer, both stacks, the last pick and the two
\* accumulated totals as they were.
C19_PickMissChangesNothing ==
    [][lastOp' \in {"click_miss", "tick_pick_miss"}
       => /\ anchor' = anchor /\ points' = points
          /\ undo' = undo /\ redo' = redo
          /\ last_pick' = last_pick
          /\ sculpt_total' = sculpt_total
          /\ axis_total_signed' = axis_total_signed]_vars

\* C20: right after load_stl, whatever came before it, the anchor is unset,
\* no drag session is active, the last pick is unset, both totals are zero,
\* both stacks are empty and the cached normals are those of the loaded mesh.
C20_LoadResets ==
    lastOp = "load"
    => /\ anchor = None /\ ~sculpting /\ last_pick = None
       /\ sculpt_total = 0 /\ axis_total_signed = 0
       /\ undo = <<>> /\ redo = <<>>
       /\ mesh # None /\ points = Some(mesh[1].pts)
       /\ cached_normals = Some(PointNormals(mesh[1]))
\* a file was loaded over an earlier editing session while the left button was
\* still down
C20_Witness ==
    /\ lastOp = "load" /\ lmb_down /\ drag_consumed_by_sculpt = FALSE
    /\ press_pos # None /\ steps >= 5

\* C21: subdivide_mesh and decimate_mesh, whether the library call succeeds
\* or raises, leave the anchor as it was and keep the snapshots that were on
\* the undo stack: on success the stack is the old one plus the buffer from
\* before the operation, on failure it is the old one.
C21_TopologyKeepsAnchorAndStack ==
    [][lastOp' \in TopologyOps \cup FailedOps
       => /\ anchor' = anchor
          /\ lastOp' \in TopologyOps
             => undo' = LastN(Append(undo, points[1]), stack_max)
          /\ lastOp' \in FailedOps => undo' = undo]_vars

\* C22: in every state the cached normals are either absent or hold exactly
\* one normal per vertex of the current point buffer.
C22_CacheAlignedWithBuffer ==
    cached_normals # None
    => points # None /\ Len(cached_normals[1].vec) = Len(points[1])
\* a redo brought back a buffer with another vertex count than the loaded one
C22_Witness ==
    /\ lastOp = "redo" /\ points # None /\ cached_normals # None
    /\ Len(points[1]) > 3 /\ undo # <<>>

\* the operations that write the point buffer
WriteOps == AppliedTicks \cup TopologyOps \cup {"undo", "redo", "load"}
\* C24: right after an operation that writes the point buffer (a tick of any
\* brush, undo, redo, a successful topology operation, load) the cached
\* normals are either absent or were computed from the buffer just written.
C24_CacheNeverStale ==
    (lastOp \in WriteOps /\ cached_normals # None)
    => points # None /\ cached_normals[1].src = points[1]
\* after a switch from the default Grab brush an Inflate tick changed the
\* buffer of the session
C24_Witness ==
    /\ lastOp = "tick_inflate" /\ brush = "PULLISTA"
    /\ drag0 # None /\ points[1] # drag0[1].pts
    /\ cached_normals # None /\ cached_normals[1].src = points[1]

\* C27: entering a drag session pushes exactly one snapshot of the current
\* buffer, zeroes both totals and sets last_pick to the initial pick (unset if
\* that pick misses); _start_sculpting during a session changes nothing.
C27_SessionEntry ==
    [][/\ lastOp' = "start_sculpting"
          => /\ ~sculpting /\ sculpting' /\ mesh # None /\ anchor # None
             /\ undo' = LastN(Append(undo, points[1]), stack_max)
             /\ points' = points /\ anchor' = anchor
             /\ sculpt_total' = 0 /\ axis_total_signed' = 0
             /\ last_pick' = drag0'[1].pick
       /\ lastOp' = "start_again"
          => /\ sculpting /\ sculpting'
             /\ undo' = undo /\ redo' = redo /\ points' = points
             /\ anchor' = anchor /\ last_pick' = last_pick
             /\ sculpt_total' = sculpt_total
             /\ axis_total_signed' = axis_total_signed]_vars
\* a second session was entered with a pick that hit
C27_Witness ==
    /\ lastOp = "start_sculpting" /\ sculpting /\ last_pick # None
    /\ Len(undo) >= 2 /\ sculpt_total = 0

\* C28: a tick is applied only if last_pick was set when it arrived and the
\* pick moved (clamped delta not below the noise floor); the first hitting
\* tick after a missed initial pick only records the point, and a tick below
\* the noise floor only updates last_pick.
C28_TickNeedsTwoPoints ==
    [][/\ (lastOp' \in TickOps /\ (lastOp' \in AppliedTicks \/ points' # points))
          => /\ last_pick # None /\ last_pick' # None
             /\ Norm2(clamp_vec(VSub(last_pick'[1], last_pick[1]), max_step_world)) > 0
       /\ lastOp' = "tick_first_pick"
          => last_pick = None /\ last_pick' # None /\ points' = points /\ undo' = undo
       /\ lastOp' = "tick_noise"
          => last_pick # None /\ last_pick' # None /\ points' = points]_vars
\* the initial pick of the session missed and the first hitting tick left the
\* buffer as it was at the session's start
C28_Witness ==
    /\ lastOp = "tick_first_pick" /\ sculpting /\ last_pick # None
    /\ drag0 # None /\ drag0[1].pick = None /\ points[1] = drag0[1].pts

\* C25: in every state the undo stack and the redo stack each hold at most
\* stack_max snapshots, also after do_undo and do_redo, which append to the
\* other stack without an eviction check.
C25_BothStacksBounded ==
    /\ Len(undo) <= stack_max /\ Len(redo) <= stack_max
    /\ Len(undo) + Len(redo) <= stack_max
\* stack_max undos of a full undo stack filled the redo stack
C25_Witness ==
    /\ lastOp = "undo" /\ Len(redo) = stack_max /\ undo = <<>>
    /\ Len(hist.pushLog) > stack_max

\* C26: a left-button release during a drag session ends it: sculpting
\* becomes false, last_pick unset and both totals zero, while the anchor, the
\* point buffer and both stacks stay as they were.
C26_ReleaseClearsSession ==
    [][lastOp' = "release_end"
       => /\ ~sculpting' /\ last_pick' = None
          /\ sculpt_total' = 0 /\ axis_total_signed' = 0
          /\ anchor' = anchor /\ points' = points
          /\ undo' = undo /\ redo' = redo]_vars

\* the ticks of the brushes that take no normals
GrabTicks == {"tick_grab", "tick_grab_axis"}
\* C23: a Grab or Smooth tick does not consult the normal cache: it does not
\* restart the normals staleness timer, which keeps running through the tick.
C23_GrabSmoothIgnoreCache ==
    [][lastOp' \in GrabTicks \cup {"tick_smooth"}
       => normals_elapsed' >= normals_elapsed]_vars

\* min(maxStep, max(0.25, 0.15 * radius)) of the claim, from the state
GrabBound == Min(max_step_world, Max(WorldScale \div 4, (15 * radius) \div 100))
\* C29: on every applied Grab tick, constrained or free, the delta passed to
\* grab_deform is no longer than min(maxStep, max(0.25, 0.15 * radius)), the
\* strength passed lies in [0, 2.5], and no vertex moves by more than 2.5
\* times that bound.
C29_GrabStepBounded ==
    lastOp \in GrabTicks
    => /\ Called("grab_deform") /\ points = Some(CallOut)
       /\ Norm2(CallArgs.delta) <= GrabBound * GrabBound
       /\ CallArgs.strength >= 0 /\ CallArgs.strength <= 250
       /\ \A i \in 1..Len(CallOut) :
              Norm2(VSub(CallOut[i], CallArgs.pts[i])) * 100 * 100
                  <= (250 * GrabBound) * (250 * GrabBound)
\* a Grab tick between picks 50 units apart, at full strength on the large
\* mesh with the small radius, moved a vertex
C29_Witness ==
    /\ lastOp \in GrabTicks /\ Called("grab_deform")
    /\ strength = 250 /\ radius = WorldScale /\ max_step_world > GrabBound
    /\ Norm2(CallArgs.delta) = GrabBound * GrabBound
    /\ CallOut # CallArgs.pts

\* min(maxAmount, max(0.20, 0.12 * radius)) of the claim, from the state
AmountBound == Min(max_amount_world, Max(WorldScale \div 5, (12 * radius) \div 100))
\* C30: on every applied Inflate/Deflate tick the amount passed to
\* inflate_deflate is at most min(maxAmount, max(0.20, 0.12 * radius)) in
\* absolute value, not negative for Inflate and not positive for Deflate.
C30_InflateAmountBounded ==
    lastOp = "tick_inflate"
    => /\ Called("inflate_deflate") /\ points = Some(CallOut)
       /\ Abs(CallArgs.amount) <= AmountBound
       /\ brush = "PULLISTA" => CallArgs.amount >= 0
       /\ brush = "PAINA" => CallArgs.amount <= 0
\* a Deflate tick at full strength passed the largest negative amount, which
\* the mesh's own limit set
C30_Witness ==
    /\ lastOp = "tick_inflate" /\ brush = "PAINA" /\ Called("inflate_deflate")
    /\ strength = 250 /\ CallArgs.amount = -AmountBound
    /\ AmountBound = max_amount_world
    /\ CallOut # CallArgs.pts

\* C31: after a topology operation that fails, the undo stack has exactly the
\* contents it had before the call, whatever its depth, a full stack of
\* stack_max snapshots included.
C31_RollbackRestoresStack ==
    [][lastOp' \in FailedOps => undo' = undo]_vars

\* C32: in every state an active drag session has a mesh and an anchor, and
\* last_pick is set only during a drag session.
C32_SessionNeedsMeshAndAnchor ==
    /\ sculpting => mesh # None /\ anchor # None
    /\ last_pick # None => sculpting
\* an undo took a snapshot off the stack in the middle of a drag session
C32_Witness ==
    /\ lastOp = "undo" /\ sculpting /\ last_pick # None
    /\ mesh # None /\ anchor # None /\ redo # <<>>

\* C33: a tick that the rate limiter rejects changes nothing: the point
\* buffer, last_pick, both totals, the cached normals, the anchor and both
\* stacks are as before, and the rate timer keeps running (is not restarted).
C33_RejectedTickChangesNothing ==
    [][lastOp' = "tick_rate_limited"
       => /\ points' = points /\ mesh' = mesh /\ last_pick' = last_pick
          /\ sculpt_total' = sculpt_total
          /\ axis_total_signed' = axis_total_signed
          /\ cached_normals' = cached_normals /\ normals_elapsed' >= normals_elapsed
          /\ anchor' = anchor /\ undo' = undo /\ redo' = redo
          /\ sculpting' = sculpting
          /\ sculpt_elapsed' > sculpt_elapsed]_vars
\* a tick was rejected in a session that had applied one, last_pick still set
C33_Witness ==
    /\ lastOp = "tick_rate_limited" /\ sculpting /\ last_pick # None
    /\ sculpt_total > 0 /\ sculpt_elapsed > 0 /\ sculpt_elapsed < sculpt_min_dt_ms

\* C34: in every state the signed axis total is at most the unsigned total in
\* absolute value, and both are zero right after a session starts; brush and
\* axis mode switches in the middle of a drag do not break it.
C34_SignedWithinUnsigned ==
    /\ Abs(axis_total_signed) <= sculpt_total
    /\ lastOp = "start_sculpting" => sculpt_total = 0 /\ axis_total_signed = 0
\* a free Grab tick was applied in a session whose axis total is not zero: the
\* axis mode was switched in the middle of the drag
C34_Witness ==
    /\ lastOp = "tick_grab" /\ sculpting /\ axis = None
    /\ axis_total_signed # 0 /\ sculpt_total > Abs(axis_total_signed)
====
